---------------------------- MODULE Spec2Model ----------------------------
(***************************************************************************)
(* Model of the before/after comparison slider of                          *)
(* src/src/components/ui/image-slider.tsx (component ImageSlider), of      *)
(* OptimizedImage of the same file and of LazySection of                   *)
(* src/src/components/ui/LazySection.tsx.                                  *)
(*                                                                         *)
(* Spec and SpecZeroWidth are the slider under every input; SpecRemeasure  *)
(* is the slider under mouse input with the rectangle of each call         *)
(* recorded; SpecPage is a LazySection and an OptimizedImage.  The         *)
(* components share no state: each specification leaves the others'        *)
(* variables as they are after mount.                                      *)
(*                                                                         *)
(* One action is one browser event (or one animation frame) together with  *)
(* everything React does before the next event is dispatched: the handler, *)
(* the re-render the state update causes, and the effect cleanup / effect  *)
(* of the useEffect whose dependency changed.                              *)
(*                                                                         *)
(* Numbers.  clientX, rect.left and rect.width are integers (any unit).    *)
(* The values the code computes with `/`, `*`, Math.min and Math.max are   *)
(* modelled as extended rationals: a reduced fraction, +Infinity,          *)
(* -Infinity or NaN, with the IEEE-754 outcomes of a division by zero.     *)
(***************************************************************************)
EXTENDS Integers, FiniteSets, Sequences, TLC

VARIABLES
    mounted,            \* containerRef.current is the <div> (line 20, 102)
    sliderPosition,     \* useState(50), line 19
    isDragging,         \* useState(false), line 21
    isHovering,         \* useState(false), line 22
    animationFrameRef,  \* useRef<number>(), line 23; 0 stands for undefined
    rafCallbacks,       \* the browser's list of animation frame callbacks
    docListeners,       \* listeners on document (lines 77-78, 84-85)
    bodyUserSelect,     \* document.body.style.userSelect (lines 79, 86)
    bodyCursor,         \* document.body.style.cursor (lines 80, 87)
    rect,               \* what getBoundingClientRect() returns now (line 37)
    mouseInside,        \* the mouse pointer is over the container
    mouseButton,        \* where the held mouse button went down ("handle",
                        \* "track", "outside"), or "up"
    touch,              \* where the active touch started, or "none"
    \* History variables: they record what happened; no guard and no update
    \* of the variables above reads them.
    window,             \* the updateSliderPosition calls of the current
                        \* frame window, or of the last one when no request
                        \* is pending: "none", "many" ("manyClick" when
                        \* the latest of them is a click that replaced a
                        \* pending request), or one call: by a
                        \* "move", by the "click" of a press on the track,
                        \* by the "handleClick" of a press on the handle
    appliedClientX,     \* <<clientX>> of the callback that ran for the
                        \* latest call, <<>> while none has run
    requestedClientX,   \* <<clientX>> of the latest updateSliderPosition
                        \* call while its frame has not fired, or <<>>
    rectAtRequest,      \* <<rect>> as it was at the latest
                        \* updateSliderPosition call (at mount before the
                        \* first call); recorded in the behaviours of
                        \* SpecRemeasure only, <<>> in the others
    released,           \* a mouse drag begun on the handle was released
                        \* outside the container and no press has followed
    \* LazySection (src/src/components/ui/LazySection.tsx).
    lazyMounted,        \* the LazySection is mounted
    isVisible,          \* useState(false), line 18
    hasLoaded,          \* useState(false), line 19
    threshold,          \* prop, line 13
    rootMargin,         \* prop, line 14
    observers,          \* the IntersectionObservers that observe the element
                        \* of line 42, each with the options and the
                        \* hasLoaded its callback closes over (lines 23-36)
    reported,           \* history: an entry with isIntersecting = true has
                        \* been delivered
    \* OptimizedImage (image-slider.tsx, lines 251-306).
    src,                \* prop, line 252
    fallback,           \* prop, line 255; "undefined" when not passed
    isLoaded,           \* useState(false), line 263
    hasError,           \* useState(false), line 264
    imgStatus,          \* the <img> of line 286: "loading" its src
                        \* attribute, "complete" or "broken"
    loadFired,          \* history: a load event has fired
    errorFired          \* history: an error event has fired

sliderVars == <<mounted, sliderPosition, isDragging, isHovering,
          animationFrameRef,
          rafCallbacks, docListeners, bodyUserSelect, bodyCursor, rect,
          mouseInside, mouseButton, touch, window, appliedClientX,
          requestedClientX, rectAtRequest, released>>
lazyVars == <<lazyMounted, isVisible, hasLoaded, threshold, rootMargin,
              observers, reported>>
imageVars == <<src, fallback, isLoaded, hasError, imgStatus, loadFired,
               errorFired>>
pageVars == <<lazyVars, imageVars>>
vars == <<sliderVars, pageVars>>

frameVars == <<animationFrameRef, rafCallbacks, window>>
effectVars == <<docListeners, bodyUserSelect, bodyCursor>>
pointerVars == <<mouseInside, mouseButton, touch>>

---------------------------------------------------------------------------
\* Bounds of the model.

\* rect.left ranges over 0..MaxLeft
MaxLeft == 1
\* rect.width ranges over 2..MaxWidth (and 0 under SpecZeroWidth)
MaxWidth == 4
\* a clientX far outside every container, on either side
Far == 1000

Lefts == 0..MaxLeft
Widths == 2..MaxWidth
ClientXs == {-Far, Far} \cup (0..(MaxLeft + MaxWidth))

---------------------------------------------------------------------------
\* Extended rationals: the doubles the code computes.

RECURSIVE GCD(_, _)
GCD(a, b) == IF b = 0 THEN a ELSE GCD(b, a % b)

Abs(a) == IF a < 0 THEN -a ELSE a

NaN == [k |-> "nan"]
PosInf == [k |-> "+inf"]
NegInf == [k |-> "-inf"]
\* The fraction n/d, d > 0, in lowest terms.
Fin(n, d) ==
    LET g == GCD(Abs(n), d)
    IN  [k |-> "fin", n |-> n \div g, d |-> d \div g]
Num(n) == Fin(n, 1)

IsNumber(v) == v.k # "nan"

\* a < b on doubles; every comparison with NaN is false.
Lt(a, b) ==
    CASE a.k = "nan" \/ b.k = "nan" -> FALSE
      [] a.k = "+inf" -> FALSE
      [] b.k = "-inf" -> FALSE
      [] a.k = "-inf" -> TRUE
      [] b.k = "+inf" -> TRUE
      [] OTHER -> a.n * b.d < b.n * a.d
Leq(a, b) == IsNumber(a) /\ IsNumber(b) /\ ~Lt(b, a)

\* The JavaScript a / b for integers a and b >= 0.
Divide(a, b) ==
    IF b # 0 THEN Fin(a, b)
    ELSE IF a > 0 THEN PosInf
    ELSE IF a < 0 THEN NegInf
    ELSE NaN

\* The JavaScript v * c for an integer c > 0.
Times(v, c) == IF v.k = "fin" THEN Fin(v.n * c, v.d) ELSE v

\* Math.min and Math.max: NaN if either argument is NaN.
MathMin(a, b) ==
    IF a.k = "nan" \/ b.k = "nan" THEN NaN ELSE IF Lt(b, a) THEN b ELSE a
MathMax(a, b) ==
    IF a.k = "nan" \/ b.k = "nan" THEN NaN ELSE IF Lt(a, b) THEN b ELSE a

---------------------------------------------------------------------------
\* updateSliderPosition, lines 25-43.

\* Faulty variant of Percentage: line 39 without Math.max and Math.min.
PercentageUnclamped(clientX, r) ==
    LET x == clientX - r.left
    IN  Times(Divide(x, r.width), 100)

\* Faulty variant of Percentage: line 38 without `- rect.left`.
PercentageNoLeft(clientX, r) ==
    MathMax(Num(0), MathMin(Num(100), Times(Divide(clientX, r.width), 100)))

\* Lines 37-39: the percentage the frame callback computes for clientX
\* against the rectangle r measured when it runs.
Percentage(clientX, r) ==
    LET x == clientX - r.left
    IN  MathMax(Num(0), MathMin(Num(100), Times(Divide(x, r.width), 100)))

\* cancelAnimationFrame(handle): the callback with that handle, if it is
\* still in the list, is removed.
CancelAnimationFrame(cbs, handle) == {c \in cbs : c.id # handle}

\* requestAnimationFrame returns a handle that identifies no callback of
\* the list.  The browser never returns a handle twice; the code only stores
\* the handle and passes it to cancelAnimationFrame, so the model reuses
\* the handles of callbacks that ran or were cancelled: the new handle is
\* the least positive integer that no callback of the list has.
NewHandle(cbs) ==
    CHOOSE h \in 1..(Cardinality(cbs) + 1) :
        /\ \A c \in cbs : c.id # h
        /\ \A g \in 1..(h - 1) : \E c \in cbs : c.id = g

\* The part of the state updateSliderPosition reads and writes.
FrameState == [ref |-> animationFrameRef, cbs |-> rafCallbacks]

\* Faulty variant of UpdateSliderPosition: lines 29-31 are missing.
UpdateSliderPositionNoCancel(s, clientX) ==
    IF ~mounted THEN s
    ELSE
      LET handle == NewHandle(s.cbs)
      IN  [ref |-> handle,
           cbs |-> s.cbs \cup {[id |-> handle, clientX |-> clientX]}]

\* Faulty variant of UpdateSliderPosition: line 34 does not store the handle.
UpdateSliderPositionRefNotStored(s, clientX) ==
    IF ~mounted THEN s
    ELSE
      LET cancelled ==
            IF s.ref # 0 THEN CancelAnimationFrame(s.cbs, s.ref) ELSE s.cbs
          handle == NewHandle(cancelled)
      IN  [ref |-> s.ref,
           cbs |-> cancelled \cup {[id |-> handle, clientX |-> clientX]}]

\* Lines 25-43: one call updateSliderPosition(clientX) made in frame state
\* s; the result is the frame state after it.
UpdateSliderPosition(s, clientX) ==
    IF ~mounted THEN s                                     \* line 26
    ELSE
      LET cancelled ==                                     \* lines 29-31
            IF s.ref # 0 THEN CancelAnimationFrame(s.cbs, s.ref) ELSE s.cbs
          handle == NewHandle(cancelled)                   \* line 34
      IN  [ref |-> handle,
           cbs |-> cancelled \cup {[id |-> handle, clientX |-> clientX]}]

\* The frame window after the handlers of one event, of the kind origin,
\* have made n calls from frame state s.
Window(s, n, origin) ==
    IF n = 0 THEN window
    ELSE IF n = 1 /\ s.cbs = {} THEN origin
    ELSE IF origin \in {"click", "handleClick"} /\ s.cbs # {} THEN "manyClick"
    ELSE "many"

\* The frame state t becomes the state; the event made n calls.
SetFrameState(t, n, origin, clientX) ==
    /\ animationFrameRef' = t.ref
    /\ rafCallbacks' = t.cbs
    /\ window' = Window(FrameState, n, origin)
    /\ appliedClientX' = IF n = 0 THEN appliedClientX ELSE <<>>
    /\ requestedClientX' = IF n = 0 THEN requestedClientX ELSE <<clientX>>
    /\ rectAtRequest' = IF n = 0 \/ rectAtRequest = <<>>
                          THEN rectAtRequest ELSE <<rect>>

\* Faulty variant of RunCallbacks: the callback uses the rectangle measured
\* when updateSliderPosition was called (line 37 moved before line 34).
RECURSIVE RunCallbacksCachedRect(_, _)
RunCallbacksCachedRect(cbs, pos) ==
    IF cbs = {} THEN pos
    ELSE
      LET first == CHOOSE c \in cbs : \A o \in cbs : c.id <= o.id
          cached == IF rectAtRequest = <<>> THEN rect ELSE rectAtRequest[1]
      IN  RunCallbacksCachedRect(cbs \ {first},
                       IF ~mounted THEN pos
                       ELSE Percentage(first.clientX, cached))

\* Lines 35-41, for every callback of the list (the browser runs them in
\* the order of their registration, here the order of the handles): the
\* position after the callbacks in cbs have run from position pos.
RECURSIVE RunCallbacks(_, _)
RunCallbacks(cbs, pos) ==
    IF cbs = {} THEN pos
    ELSE
      LET first == CHOOSE c \in cbs : \A o \in cbs : c.id <= o.id
      IN  RunCallbacks(cbs \ {first},
                       IF ~mounted THEN pos                \* line 35
                       ELSE Percentage(first.clientX, rect))

---------------------------------------------------------------------------
\* State updates and the effect of lines 64-89.

\* Faulty variant of GlobalListeners: line 78 is missing.
GlobalListenersMoveOnly(d) == {[type |-> "mousemove", isDragging |-> d]}

\* The listeners the effect adds when it runs in a render with isDragging = d
\* (lines 65-74 close over that render's isDragging).
GlobalListeners(d) ==
    {[type |-> "mousemove", isDragging |-> d],
     [type |-> "mouseup", isDragging |-> d]}

\* Faulty variant of SetIsDragging: the effect has no cleanup (lines 83-88).
SetIsDraggingNoCleanup(v) ==
    /\ isDragging' = v
    /\ IF v = isDragging
         THEN UNCHANGED <<docListeners, bodyUserSelect, bodyCursor>>
         ELSE /\ docListeners' = IF v THEN docListeners \cup GlobalListeners(v)
                                 ELSE docListeners
              /\ bodyUserSelect' = IF v THEN "none" ELSE bodyUserSelect
              /\ bodyCursor' = IF v THEN "col-resize" ELSE bodyCursor

\* setIsDragging(v) and the render it causes.  A change of isDragging
\* re-runs the effect: its cleanup (lines 83-88), then its body (lines
\* 76-81) in the new render.  An unchanged value causes no render.
SetIsDragging(v) ==
    /\ isDragging' = v
    /\ IF v = isDragging
         THEN UNCHANGED <<docListeners, bodyUserSelect, bodyCursor>>
         ELSE /\ docListeners' = IF v THEN GlobalListeners(v) ELSE {}
              /\ bodyUserSelect' = IF v THEN "none" ELSE ""
              /\ bodyCursor' = IF v THEN "col-resize" ELSE ""

\* document has a listener of this type.
Listening(type) == \E l \in docListeners : l.type = type

\* Lines 65-70: handleGlobalMouseMove, if it is installed, run in frame
\* state s.
HandleGlobalMouseMove(s, clientX) ==
    IF \E l \in docListeners : l.type = "mousemove" /\ l.isDragging
      THEN UpdateSliderPosition(s, clientX)
      ELSE s

\* Faulty variant of HandleMove: the test of lines 46 and 52 is missing.
HandleMoveAlways(s, clientX) == UpdateSliderPosition(s, clientX)

\* Lines 45-49 and 51-55: handleMouseMove / handleTouchMove run in frame
\* state s.
HandleMove(s, clientX) ==
    IF ~isDragging THEN s ELSE UpdateSliderPosition(s, clientX)

\* Faulty variant of HandleClick: the click schedules its frame without
\* cancelling the pending one (lines 29-31 skipped).
HandleClickNoCancel(s, d, clientX) ==
    IF ~d THEN UpdateSliderPositionNoCancel(s, clientX) ELSE s

\* Faulty variant of HandleClick: the test of line 58 is inverted.
HandleClickInverted(s, d, clientX) ==
    IF d THEN UpdateSliderPosition(s, clientX) ELSE s

\* Lines 57-61: handleClick run in frame state s, in a render whose
\* isDragging is d.
HandleClick(s, d, clientX) ==
    IF ~d THEN UpdateSliderPosition(s, clientX) ELSE s

\* The number of calls of updateSliderPosition each move handler makes.
MoveCalls == IF isDragging /\ mounted THEN 1 ELSE 0
GlobalMoveCalls ==
    IF mounted /\ \E l \in docListeners : l.type = "mousemove" /\ l.isDragging
      THEN 1 ELSE 0

\* clientX is horizontally within the container.
Inside(clientX) ==
    /\ rect.width > 0
    /\ rect.left <= clientX
    /\ clientX <= rect.left + rect.width

Phase ==
    IF isDragging THEN "Dragging"
    ELSE IF isHovering THEN "Hovering" ELSE "Idle"

\* Faulty variant of LeftLabelInverted: line 204 tests <= instead of <.
LeftLabelInvertedAt25(pos) == Leq(pos, Num(25))

\* Line 204: the left (before) label has the inverted classes.
LeftLabelInverted(pos) == Lt(pos, Num(25))

\* Line 216: the right (after) label has the inverted classes.
RightLabelInverted(pos) == Lt(Num(75), pos)

---------------------------------------------------------------------------

\* The props the model draws from.
Thresholds == {"0.1", "0.5"}
RootMargins == {"50px", "0px"}
Srcs == {"a.jpg", "b.jpg"}
Fallbacks == {"undefined", "", "fallback.jpg"}

\* Lines 23-32 of LazySection.tsx: the observer an effect run creates in a
\* render with these props and this hasLoaded.
NewObserver(th, rm, h) ==
    [threshold |-> th, rootMargin |-> rm, hasLoaded |-> h]

\* Every observer the component can create.
Observers ==
    [threshold : Thresholds, rootMargin : RootMargins, hasLoaded : BOOLEAN]

\* LazySection after its mount, with props from ths and rms: the state of
\* lines 18-19 and the observer of the first effect run (lines 22-36).
InitLazySection(ths, rms) ==
    /\ lazyMounted = TRUE
    /\ isVisible = FALSE
    /\ hasLoaded = FALSE
    /\ threshold \in ths
    /\ rootMargin \in rms
    /\ observers = {NewObserver(threshold, rootMargin, FALSE)}
    /\ reported = FALSE

\* OptimizedImage after its mount, with props from srcs and fbs (lines
\* 263-264); the <img> has begun to load src.
InitOptimizedImage(srcs, fbs) ==
    /\ src \in srcs
    /\ fallback \in fbs
    /\ isLoaded = FALSE
    /\ hasError = FALSE
    /\ imgStatus = "loading"
    /\ loadFired = FALSE
    /\ errorFired = FALSE

\* ImageSlider after its mount (lines 19-23), its container at one of the
\* rectangles rects, no pointer over it.
InitImageSlider(rects) ==
    /\ mounted = TRUE
    /\ sliderPosition = Num(50)
    /\ isDragging = FALSE
    /\ isHovering = FALSE
    /\ animationFrameRef = 0
    /\ rafCallbacks = {}
    /\ docListeners = {}
    /\ bodyUserSelect = ""
    /\ bodyCursor = ""
    /\ rect \in rects
    /\ mouseInside = FALSE
    /\ mouseButton = "up"
    /\ touch = "none"
    /\ window = "none"
    /\ appliedClientX = <<>>
    /\ requestedClientX = <<>>
    /\ released = FALSE

Init ==
    /\ InitImageSlider([left : Lefts, width : Widths])
    /\ rectAtRequest = <<>>
    /\ InitLazySection({"0.1"}, {"50px"})
    /\ InitOptimizedImage({"a.jpg"}, {"undefined"})


---------------------------------------------------------------------------
\* Mouse events.

\* Faulty variant of MouseEnter: line 113 does not set isHovering.
MouseEnterNoHover ==
    /\ mounted /\ ~mouseInside /\ rect.width > 0
    /\ mouseInside' = TRUE
    /\ UNCHANGED <<mounted, sliderPosition, isDragging, isHovering,
                   frameVars, effectVars, rect, mouseButton, touch,
                   appliedClientX, requestedClientX, rectAtRequest, released>>
    /\ UNCHANGED pageVars

\* Line 113: onMouseEnter.
MouseEnter ==
    /\ mounted /\ ~mouseInside /\ rect.width > 0
    /\ mouseInside' = TRUE
    /\ isHovering' = TRUE
    /\ UNCHANGED <<mounted, sliderPosition, isDragging, frameVars,
                   effectVars, rect, mouseButton, touch,
                   appliedClientX, requestedClientX, rectAtRequest,
                   released>>
    /\ UNCHANGED pageVars

\* Lines 114-117: onMouseLeave.
MouseLeave ==
    /\ mounted /\ mouseInside
    /\ mouseInside' = FALSE
    /\ SetIsDragging(FALSE)
    /\ isHovering' = FALSE
    /\ UNCHANGED <<mounted, sliderPosition, frameVars, rect, mouseButton,
                   touch, appliedClientX, requestedClientX,
                   rectAtRequest, released>>
    /\ UNCHANGED pageVars

\* Faulty variant of MouseDownHandle: line 177 is missing.
MouseDownHandleNoDrag ==
    /\ mounted /\ mouseInside /\ mouseButton = "up"
    /\ mouseButton' = "handle"
    /\ released' = FALSE
    /\ UNCHANGED <<mounted, sliderPosition, isDragging, isHovering,
                   frameVars, effectVars, rect, mouseInside, touch,
                   appliedClientX, requestedClientX, rectAtRequest>>
    /\ UNCHANGED pageVars

\* Lines 175-178: onMouseDown of the handle.  No other element has a
\* mouse-down handler.
MouseDownHandle ==
    /\ mounted /\ mouseInside /\ mouseButton = "up"
    /\ mouseButton' = "handle"
    /\ SetIsDragging(TRUE)
    /\ released' = FALSE
    /\ UNCHANGED <<mounted, sliderPosition, isHovering, frameVars, rect,
                   mouseInside, touch, appliedClientX, requestedClientX,
                   rectAtRequest>>
    /\ UNCHANGED pageVars

\* A mouse-down inside the container but not on the handle: lines 101-118
\* give the container no onMouseDown, so no handler runs.
MouseDownTrack ==
    /\ mounted /\ mouseInside /\ mouseButton = "up"
    /\ mouseButton' = "track"
    /\ released' = FALSE
    /\ UNCHANGED <<mounted, sliderPosition, isDragging, isHovering,
                   frameVars, effectVars, rect, mouseInside, touch,
                   appliedClientX, requestedClientX, rectAtRequest>>
    /\ UNCHANGED pageVars

\* A mouse-down outside the container: no handler runs.
MouseDownOutside ==
    /\ mounted /\ ~mouseInside /\ mouseButton = "up"
    /\ mouseButton' = "outside"
    /\ released' = FALSE
    /\ UNCHANGED <<mounted, sliderPosition, isDragging, isHovering,
                   frameVars, effectVars, rect, mouseInside, touch,
                   appliedClientX, requestedClientX, rectAtRequest>>
    /\ UNCHANGED pageVars

\* A mouse move over the container: onMouseMove (line 108, handleMouseMove)
\* and then, as the event bubbles to document, handleGlobalMouseMove.
MouseMoveInside(clientX) ==
    /\ mounted /\ mouseInside /\ Inside(clientX)
    /\ LET s1 == HandleMove(FrameState, clientX)
           s2 == HandleGlobalMouseMove(s1, clientX)
       IN  SetFrameState(s2, MoveCalls + GlobalMoveCalls, "move", clientX)
    /\ UNCHANGED <<mounted, sliderPosition, isDragging, isHovering,
                   effectVars, rect, pointerVars, released>>
    /\ UNCHANGED pageVars

\* A mouse move outside the container reaches only the listener on
\* document (lines 65-70, 77).
MouseMoveOutside(clientX) ==
    /\ mounted /\ ~mouseInside /\ Listening("mousemove")
    /\ LET s1 == HandleGlobalMouseMove(FrameState, clientX)
       IN  SetFrameState(s1, GlobalMoveCalls, "move", clientX)
    /\ UNCHANGED <<mounted, sliderPosition, isDragging, isHovering,
                   effectVars, rect, pointerVars, released>>
    /\ UNCHANGED pageVars

\* The button is released over the container: onMouseUp (line 109) and
\* handleGlobalMouseUp (lines 72-74) both call setIsDragging(false), React
\* renders, and, if the button also went down inside the container, the
\* browser dispatches click to it: onClick (line 112, handleClick) of the
\* new render.
MouseUpInside(clientX) ==
    /\ mounted /\ mouseInside /\ mouseButton # "up" /\ Inside(clientX)
    /\ mouseButton' = "up"
    /\ SetIsDragging(FALSE)
    /\ LET clicked == mouseButton \in {"handle", "track"}
           s1 == IF clicked THEN HandleClick(FrameState, FALSE, clientX)
                 ELSE FrameState
       IN  SetFrameState(s1, IF clicked THEN 1 ELSE 0,
                         IF mouseButton = "track" THEN "click"
                         ELSE "handleClick", clientX)
    /\ UNCHANGED <<mounted, sliderPosition, isHovering, rect, mouseInside,
                   touch, released>>
    /\ UNCHANGED pageVars

\* The button is released outside the container: only handleGlobalMouseUp
\* (lines 72-74), if it is installed, runs.
MouseUpOutside ==
    /\ mounted /\ ~mouseInside /\ mouseButton # "up"
    /\ mouseButton' = "up"
    /\ IF Listening("mouseup")
         THEN SetIsDragging(FALSE)
         ELSE UNCHANGED <<isDragging, effectVars>>
    /\ released' = (mouseButton = "handle" /\ touch = "none")
    /\ UNCHANGED <<mounted, sliderPosition, isHovering, frameVars, rect,
                   mouseInside, touch, appliedClientX, requestedClientX,
                   rectAtRequest>>
    /\ UNCHANGED pageVars

---------------------------------------------------------------------------
\* Touch events.  They are dispatched to the element the touch started on,
\* wherever the finger is, and bubble to the container.

\* Lines 179-182: onTouchStart of the handle.
TouchStartHandle ==
    /\ mounted /\ touch = "none" /\ rect.width > 0
    /\ touch' = "handle"
    /\ SetIsDragging(TRUE)
    /\ released' = FALSE
    /\ UNCHANGED <<mounted, sliderPosition, isHovering, frameVars, rect,
                   mouseInside, mouseButton, appliedClientX, requestedClientX,
                   rectAtRequest>>
    /\ UNCHANGED pageVars

\* A touch that starts inside the container but not on the handle: the
\* container has no onTouchStart.
TouchStartTrack ==
    /\ mounted /\ touch = "none" /\ rect.width > 0
    /\ touch' = "track"
    /\ released' = FALSE
    /\ UNCHANGED <<mounted, sliderPosition, isDragging, isHovering,
                   frameVars, effectVars, rect, mouseInside, mouseButton,
                   appliedClientX, requestedClientX, rectAtRequest>>
    /\ UNCHANGED pageVars

\* Line 110: onTouchMove (handleTouchMove, lines 51-55); the finger may be
\* anywhere on the screen.
TouchMove(clientX) ==
    /\ mounted /\ touch # "none"
    /\ LET s1 == HandleMove(FrameState, clientX)
       IN  SetFrameState(s1, MoveCalls, "move", clientX)
    /\ UNCHANGED <<mounted, sliderPosition, isDragging, isHovering,
                   effectVars, rect, pointerVars, released>>
    /\ UNCHANGED pageVars

\* Line 111: onTouchEnd.
TouchEnd ==
    /\ mounted /\ touch # "none"
    /\ touch' = "none"
    /\ SetIsDragging(FALSE)
    /\ UNCHANGED <<mounted, sliderPosition, isHovering, frameVars, rect,
                   mouseInside, mouseButton,
                   appliedClientX, requestedClientX, rectAtRequest, released>>
    /\ UNCHANGED pageVars

---------------------------------------------------------------------------
\* The animation frame, layout changes and unmount.

\* The callback of cbs with the greatest handle: the last one a frame runs.
LastCallback(cbs) == CHOOSE c \in cbs : \A o \in cbs : o.id <= c.id

\* The browser runs the animation frame callbacks (lines 34-42).
FrameFire ==
    /\ rafCallbacks # {}
    /\ rafCallbacks' = {}
    /\ sliderPosition' = RunCallbacks(rafCallbacks, sliderPosition)
    /\ appliedClientX' = IF mounted
                           THEN <<LastCallback(rafCallbacks).clientX>>
                           ELSE appliedClientX
    /\ requestedClientX' = <<>>
    /\ UNCHANGED <<mounted, isDragging, isHovering, animationFrameRef,
                   window, effectVars, rect, pointerVars, released,
                   rectAtRequest>>
    /\ UNCHANGED pageVars

\* Scroll or layout moves or resizes the container.
Resize(left, width) ==
    /\ mounted
    /\ rect' = [left |-> left, width |-> width]
    /\ rect' # rect
    /\ UNCHANGED <<mounted, sliderPosition, isDragging, isHovering,
                   frameVars, effectVars, pointerVars,
                   appliedClientX, requestedClientX, rectAtRequest,
                   released>>
    /\ UNCHANGED pageVars

\* Layout collapses the container to zero width.
Collapse(left) == Resize(left, 0)

\* Faulty variant of CleanupAnimationFrame: the effect of lines 92-98
\* returns no cleanup.
CleanupNothing == rafCallbacks

\* The cleanup of lines 93-97.
CleanupAnimationFrame ==
    IF animationFrameRef # 0
      THEN CancelAnimationFrame(rafCallbacks, animationFrameRef)
      ELSE rafCallbacks

\* React unmounts the component: the cleanups of both effects run (lines
\* 83-88 and 93-97) and the ref is detached.
Unmount ==
    /\ mounted
    /\ mounted' = FALSE
    /\ docListeners' = {}
    /\ bodyUserSelect' = ""
    /\ bodyCursor' = ""
    /\ rafCallbacks' = CleanupAnimationFrame
    /\ requestedClientX' = <<>>
    /\ UNCHANGED <<sliderPosition, isDragging, isHovering, animationFrameRef,
                   window, rect, pointerVars, appliedClientX, released,
                   rectAtRequest>>
    /\ UNCHANGED pageVars

---------------------------------------------------------------------------

Next ==
    \/ MouseEnter
    \/ MouseLeave
    \/ MouseDownHandle
    \/ MouseDownTrack
    \/ MouseDownOutside
    \/ \E x \in ClientXs : MouseMoveInside(x)
    \/ \E x \in ClientXs : MouseMoveOutside(x)
    \/ \E x \in ClientXs : MouseUpInside(x)
    \/ MouseUpOutside
    \/ TouchStartHandle
    \/ TouchStartTrack
    \/ \E x \in ClientXs : TouchMove(x)
    \/ TouchEnd
    \/ FrameFire
    \/ \E l \in Lefts, w \in Widths : Resize(l, w)
    \/ Unmount

\* Every container rectangle has positive width.
Spec == Init /\ [][Next]_vars

NextZeroWidth == Next \/ \E l \in Lefts : Collapse(l)

\* The container may also collapse to zero width.
SpecZeroWidth == Init /\ [][NextZeroWidth]_vars

\* The slider under mouse input and layout changes, with the rectangle of
\* the latest call recorded.
InitRemeasure ==
    /\ InitImageSlider([left : Lefts, width : Widths])
    /\ rectAtRequest = <<rect>>
    /\ InitLazySection({"0.1"}, {"50px"})
    /\ InitOptimizedImage({"a.jpg"}, {"undefined"})

NextRemeasure ==
    \/ MouseEnter
    \/ MouseLeave
    \/ MouseDownHandle
    \/ \E x \in ClientXs : MouseMoveInside(x)
    \/ \E x \in ClientXs : MouseUpInside(x)
    \/ FrameFire
    \/ \E l \in Lefts, w \in Widths : Resize(l, w)

SpecRemeasure == InitRemeasure /\ [][NextRemeasure]_vars

---------------------------------------------------------------------------
\* LazySection (src/src/components/ui/LazySection.tsx).  One action is one
\* callback or props change with the render and the effect run that follow.
\* An observer delivers one entry per callback, for the one element it
\* observes; the entry may report either value.

\* Faulty variant of ObserverCallback: the callback follows the entry
\* (setIsVisible(entry.isIntersecting)) and keeps observing.
ObserverCallbackToggles(o, isIntersecting) ==
    [isVisible |-> isIntersecting,
     hasLoaded |-> hasLoaded \/ isIntersecting,
     disconnect |-> FALSE]

\* Lines 24-30: the callback of observer o receives an entry; the state it
\* sets and whether it disconnects o.
ObserverCallback(o, isIntersecting) ==
    IF isIntersecting /\ ~o.hasLoaded
      THEN [isVisible |-> TRUE, hasLoaded |-> TRUE, disconnect |-> TRUE]
      ELSE [isVisible |-> isVisible, hasLoaded |-> hasLoaded,
            disconnect |-> FALSE]

\* Lines 22-39: the observers after a render with dependencies th, rm, h,
\* obs observing before it.  When a dependency has changed, the cleanup of
\* the previous run disconnects the observer of that run (line 38) and the
\* effect creates one and makes it observe the element (lines 23-36).
LazyEffect(obs, th, rm, h) ==
    IF <<th, rm, h>> = <<threshold, rootMargin, hasLoaded>> THEN obs
    ELSE (obs \ {NewObserver(threshold, rootMargin, hasLoaded)})
           \cup {NewObserver(th, rm, h)}

\* Line 43: what the wrapper renders.
LazyRenders == IF isVisible THEN "children" ELSE "fallback"

\* The browser delivers an entry to the callback of an observer.
IntersectionEntry(o, isIntersecting) ==
    /\ lazyMounted /\ o \in observers
    /\ LET r == ObserverCallback(o, isIntersecting)
           obs == IF r.disconnect THEN observers \ {o} ELSE observers
       IN  /\ isVisible' = r.isVisible
           /\ hasLoaded' = r.hasLoaded
           /\ observers' = LazyEffect(obs, threshold, rootMargin, r.hasLoaded)
    /\ reported' = (reported \/ isIntersecting)
    /\ UNCHANGED <<lazyMounted, threshold, rootMargin, imageVars, sliderVars>>

\* The parent renders the wrapper with another threshold.
SetThreshold(th) ==
    /\ lazyMounted /\ th # threshold
    /\ threshold' = th
    /\ observers' = LazyEffect(observers, th, rootMargin, hasLoaded)
    /\ UNCHANGED <<lazyMounted, isVisible, hasLoaded, rootMargin, reported,
                   imageVars, sliderVars>>

\* The parent renders the wrapper with another rootMargin.
SetRootMargin(rm) ==
    /\ lazyMounted /\ rm # rootMargin
    /\ rootMargin' = rm
    /\ observers' = LazyEffect(observers, threshold, rm, hasLoaded)
    /\ UNCHANGED <<lazyMounted, isVisible, hasLoaded, threshold, reported,
                   imageVars, sliderVars>>

\* React unmounts the wrapper: the cleanup of line 38 runs.
LazyUnmount ==
    /\ lazyMounted
    /\ lazyMounted' = FALSE
    /\ observers' = observers \ {NewObserver(threshold, rootMargin, hasLoaded)}
    /\ UNCHANGED <<isVisible, hasLoaded, threshold, rootMargin, reported,
                   imageVars, sliderVars>>

---------------------------------------------------------------------------
\* OptimizedImage (image-slider.tsx, lines 251-306).

\* A prop that JavaScript takes for true in hasError && fallback.
Truthy(s) == s \notin {"undefined", ""}

\* Faulty variant of DisplayedSrc: line 287 ignores hasError.
DisplayedSrcIgnoresError(s, f, e) == s

\* Line 287: the src attribute of the <img>.
DisplayedSrc(s, f, e) == IF e /\ Truthy(f) THEN f ELSE s

\* Line 280: the loading placeholder is rendered.
PlaceholderShown == ~isLoaded

ImageState == [isLoaded |-> isLoaded, hasError |-> hasError]

\* Lines 266-268: handleLoad.
HandleLoad(st) == [st EXCEPT !.isLoaded = TRUE]

\* Faulty variant of HandleError: line 272 is missing.
HandleErrorNotLoaded(st) == [st EXCEPT !.hasError = TRUE]

\* Lines 270-273: handleError.
HandleError(st) == [isLoaded |-> TRUE, hasError |-> TRUE]

\* The render with state st and prop s: the <img> starts to load when its
\* src attribute changes and is in status settled otherwise.
RenderImage(st, s, settled) ==
    /\ isLoaded' = st.isLoaded
    /\ hasError' = st.hasError
    /\ src' = s
    /\ imgStatus' = IF DisplayedSrc(s, fallback, st.hasError)
                        # DisplayedSrc(src, fallback, hasError)
                       THEN "loading" ELSE settled

\* The <img> fires load (line 294).
ImgLoad ==
    /\ imgStatus = "loading"
    /\ RenderImage(HandleLoad(ImageState), src, "complete")
    /\ loadFired' = TRUE
    /\ UNCHANGED <<fallback, errorFired, lazyVars, sliderVars>>

\* The <img> fires error (line 295).
ImgError ==
    /\ imgStatus = "loading"
    /\ RenderImage(HandleError(ImageState), src, "broken")
    /\ errorFired' = TRUE
    /\ UNCHANGED <<fallback, loadFired, lazyVars, sliderVars>>

\* The parent renders the image with another src.
SetSrc(s) ==
    /\ s # src
    /\ RenderImage(ImageState, s, imgStatus)
    /\ UNCHANGED <<fallback, loadFired, errorFired, lazyVars, sliderVars>>

---------------------------------------------------------------------------
\* The page components: a LazySection and an OptimizedImage, side by side,
\* with every combination of the props.

InitPage ==
    /\ InitImageSlider({[left |-> 0, width |-> MaxWidth]})
    /\ rectAtRequest = <<>>
    /\ InitLazySection(Thresholds, RootMargins)
    /\ InitOptimizedImage(Srcs, Fallbacks)

NextPage ==
    \/ \E o \in Observers, e \in BOOLEAN : IntersectionEntry(o, e)
    \/ \E th \in Thresholds : SetThreshold(th)
    \/ \E rm \in RootMargins : SetRootMargin(rm)
    \/ LazyUnmount
    \/ ImgLoad
    \/ ImgError
    \/ \E s \in Srcs : SetSrc(s)

SpecPage == InitPage /\ [][NextPage]_vars

---------------------------------------------------------------------------
\* Properties.

\* C1: in every reachable state, whatever the events, the clientX values
\* (far left and far right included) and the rectangles of positive width,
\* 0 <= sliderPosition <= 100.
C1_PositionClamped ==
    Leq(Num(0), sliderPosition) /\ Leq(sliderPosition, Num(100))

\* C1: a callback has run for a clientX far to the left of the container.
C1_FarLeftApplied ==
    appliedClientX = <<-Far>> /\ sliderPosition = Num(0)

\* C2: when the frame fires for a request made with clientX, on a container
\* with left edge L and width W > 0, the new position is 0 if clientX <= L,
\* 100 if clientX >= L + W, and otherwise the number p with
\* p * W = 100 * (clientX - L); it is 50 at clientX = L + W/2.
C2_PositionFormula ==
    [][mounted /\ rect.width > 0 /\ FrameFire =>
         \A c \in rafCallbacks :
            LET x == c.clientX - rect.left
                W == rect.width
                p == sliderPosition'
            IN  /\ p.k = "fin"
                /\ x <= 0 => p = Num(0)
                /\ x >= W => p = Num(100)
                /\ 0 < x /\ x < W => p.n * W = 100 * x * p.d
                /\ x = 0 => p = Num(0)
                /\ x = W => p = Num(100)
                /\ 2 * x = W => p = Num(50)]_vars

\* C2: a callback has run for clientX = L + W/2 of the current rectangle
\* and left the position at 50.
C2_MidpointApplied ==
    /\ appliedClientX # <<>>
    /\ 2 * (appliedClientX[1] - rect.left) = rect.width
    /\ rect.left > 0
    /\ sliderPosition = Num(50)

\* C3: after every updateSliderPosition(x) exactly one request is pending,
\* the one of the latest call, with clientX = x, however many calls the
\* frame window has seen; so when the frame fires exactly one callback runs,
\* it is the one of the latest call, and the position it sets is the one
\* computed from that call's clientX.
C3_OneUpdatePerFrame ==
    /\ [](requestedClientX # <<>> =>
            rafCallbacks = {[id |-> animationFrameRef,
                             clientX |-> requestedClientX[1]]})
    /\ [][mounted /\ FrameFire =>
            /\ requestedClientX # <<>>
            /\ sliderPosition' = Percentage(requestedClientX[1], rect)
            /\ appliedClientX' = requestedClientX]_vars

\* C3: a frame has fired after a window of two or more calls.
C3_ManyCallsOneFrame ==
    /\ mounted
    /\ window = "many"
    /\ rafCallbacks = {}
    /\ appliedClientX # <<>>

\* C4: in every reachable state at most one frame request is pending, and
\* it is the one whose handle animationFrameRef holds.
C4_AtMostOnePending ==
    /\ Cardinality(rafCallbacks) <= 1
    /\ \A c \in rafCallbacks : c.id = animationFrameRef

\* C4: a call has replaced a request that was pending.
C4_RequestReplaced ==
    window = "many" /\ Cardinality(rafCallbacks) = 1

\* C5: if the width is zero when the scheduled callback runs, the update
\* is skipped: the position keeps its value, and stays a number.
C5_ZeroWidthSkipsUpdate ==
    [][mounted /\ rect.width = 0 /\ FrameFire =>
         sliderPosition' = sliderPosition /\ IsNumber(sliderPosition')]_vars

\* C6: while dragging with the mouse button held since it went down on the
\* handle, the pointer leaving the container leaves the phase at Dragging
\* and the document listeners, which forward the moves made outside, in
\* place.
C6_LeaveKeepsDragging ==
    [][isDragging /\ mouseButton = "handle" /\ MouseLeave =>
         Phase' = "Dragging" /\ docListeners' = GlobalListeners(TRUE)]_vars

\* C7, as stated: from the release outside the container of a drag begun on
\* the handle, as long as no press follows, the position never changes.
C7_NoChangeAfterRelease ==
    [][released /\ released' => sliderPosition' = sliderPosition]_vars

\* C7, amended: the release outside the container of a drag begun on the
\* handle leaves the phase Idle and no listener on document; from then on,
\* as long as no press follows, no event schedules a frame request, and the
\* position changes only when a request that was pending at the release
\* fires.
C7_ReleaseOutsideEndsDrag ==
    [][/\ mouseButton = "handle" /\ MouseUpOutside =>
            /\ Phase' = "Idle"
            /\ docListeners' = {}
            /\ bodyUserSelect' = "" /\ bodyCursor' = ""
       /\ released /\ released' =>
            /\ Phase' # "Dragging"
            /\ docListeners' = {}
            /\ rafCallbacks' \subseteq rafCallbacks
            /\ sliderPosition' # sliderPosition => FrameFire]_vars

\* C7: after a drag with moves, released outside the container, the mouse
\* has moved over the container again and nothing is pending.
C7_ReleasedOutside ==
    /\ released
    /\ window \in {"move", "many"}
    /\ mouseInside
    /\ Phase = "Hovering"
    /\ docListeners = {}
    /\ rafCallbacks = {}

\* C8: once the component is unmounted, from whatever state, no frame
\* request is pending, document has no listener of the component, the body
\* styles are reset, and the position never changes again.
C8_UnmountCleansUp ==
    /\ [](~mounted =>
            /\ rafCallbacks = {}
            /\ docListeners = {}
            /\ bodyUserSelect = "" /\ bodyCursor = "")
    /\ [][~mounted => sliderPosition' = sliderPosition]_vars

\* C8: the component was unmounted mid-drag while the request of the latest
\* call was still pending.
C8_UnmountedMidDrag ==
    /\ ~mounted
    /\ isDragging
    /\ animationFrameRef # 0
    /\ appliedClientX = <<>>

\* C9, as stated: a press on the handle or on the track, by mouse or by
\* touch, leaves the phase Dragging.
C9_PressStartsDrag ==
    [][MouseDownHandle \/ MouseDownTrack \/ TouchStartHandle
         \/ TouchStartTrack => Phase' = "Dragging"]_vars

\* C9, amended: a press on the handle, by mouse or by touch, leaves the
\* phase Dragging and the document listeners installed; a press on the
\* track leaves isDragging as it was.
C9_HandlePressStartsDrag ==
    [][/\ MouseDownHandle \/ TouchStartHandle =>
            Phase' = "Dragging" /\ docListeners' = GlobalListeners(TRUE)
       /\ MouseDownTrack \/ TouchStartTrack =>
            isDragging' = isDragging]_vars

\* C9: the mouse button is held since it went down on the track, and the
\* phase is Hovering.
C9_TrackPressed ==
    mouseButton = "track" /\ touch = "none" /\ Phase = "Hovering"

\* C10: while the mouse button is held since it went down on the track
\* (and no finger is on the handle) the phase is not Dragging; only a press
\* on the handle enters Dragging; the click at x leaves the phase out of
\* Dragging, the position as it was and exactly one request pending, for x;
\* and the frame of a window whose only call was that click runs exactly
\* one callback, which sets the position computed from x.
C10_ClickJumpsWithoutDrag ==
    /\ [](mouseButton = "track" /\ touch # "handle" => Phase # "Dragging")
    /\ [][/\ ~isDragging /\ isDragging' =>
               MouseDownHandle \/ TouchStartHandle
          /\ \A x \in ClientXs :
               mouseButton = "track" /\ MouseUpInside(x) =>
                 /\ Phase' # "Dragging"
                 /\ sliderPosition' = sliderPosition
                 /\ rafCallbacks' =
                      {[id |-> animationFrameRef', clientX |-> x]}
          /\ mounted /\ window = "click" /\ FrameFire =>
               /\ Cardinality(rafCallbacks) = 1
               /\ \A c \in rafCallbacks :
                     sliderPosition' = Percentage(c.clientX, rect)
               /\ rafCallbacks' = {}]_vars

\* C10: the frame of a window whose only call was a click has fired, and the
\* position is the one computed from the clientX of the click.
C10_ClickApplied ==
    /\ mounted
    /\ window = "click"
    /\ rafCallbacks = {}
    /\ appliedClientX # <<>>
    /\ sliderPosition = Percentage(appliedClientX[1], rect)
    /\ sliderPosition # Num(50)
    /\ ~isDragging

\* C11: while the component is mounted, the two document listeners
\* (mousemove, mouseup), userSelect = none and cursor = col-resize are all in
\* place when the phase is Dragging and none of them is in place in any
\* other phase; after unmount none is in place; every step that leaves
\* Dragging, by whatever event, removes them and every step that enters it
\* installs them.
C11_ListenersIffDragging ==
    LET types == {l.type : l \in docListeners}
        installed == /\ types = {"mousemove", "mouseup"}
                     /\ bodyUserSelect = "none"
                     /\ bodyCursor = "col-resize"
        absent == /\ docListeners = {}
                  /\ bodyUserSelect = ""
                  /\ bodyCursor = ""
    IN  /\ mounted /\ Phase = "Dragging" => installed
        /\ mounted /\ Phase # "Dragging" => absent
        /\ ~mounted => absent

\* C11: a drag that began on the handle is in progress with the listeners
\* and the styles in place.
C11_DragInstalled ==
    /\ mounted
    /\ Phase = "Dragging"
    /\ mouseButton = "handle"
    /\ Listening("mousemove") /\ Listening("mouseup")
    /\ bodyUserSelect = "none"
    /\ bodyCursor = "col-resize"

\* C12: for every position in [0, 100] the left label is inverted exactly
\* when position < 25 and the right label exactly when position > 75; from
\* 25 to 75 inclusive neither is inverted, and never both.
C12_LabelThresholds ==
    LET p == sliderPosition
    IN  p.k = "fin" /\ 0 <= p.n /\ p.n <= 100 * p.d =>
          /\ LeftLabelInverted(p) <=> p.n < 25 * p.d
          /\ RightLabelInverted(p) <=> p.n > 75 * p.d
          /\ 25 * p.d <= p.n /\ p.n <= 75 * p.d =>
                ~LeftLabelInverted(p) /\ ~RightLabelInverted(p)
          /\ ~(LeftLabelInverted(p) /\ RightLabelInverted(p))

\* C12: a frame has left the position at exactly 25, where the left label
\* is not inverted.
C12_AtThreshold ==
    /\ appliedClientX # <<>>
    /\ sliderPosition = Num(25)
    /\ ~LeftLabelInverted(sliderPosition)
    /\ ~RightLabelInverted(sliderPosition)

\* C16, as stated: a click applies its position at once and leaves the
\* frame requests alone: it cancels no pending request and schedules none
\* of its own.
C16_ClickNotDebounced ==
    [][/\ mounted /\ mouseInside
       /\ mouseButton \in {"handle", "track"} /\ mouseButton' = "up"
       => /\ rafCallbacks \subseteq rafCallbacks'
          /\ requestedClientX' # <<>>
          /\ sliderPosition' = Percentage(requestedClientX'[1], rect)]_vars

\* C16, amended: a click goes through updateSliderPosition like a move: it
\* leaves the position as it is and leaves exactly one pending request, its
\* own, whatever was pending before; and a call that follows a pending click
\* leaves exactly one pending request, that of the later call.
C16_ClickCoalesced ==
    [][/\ /\ mounted /\ mouseInside
          /\ mouseButton \in {"handle", "track"} /\ mouseButton' = "up"
          => /\ sliderPosition' = sliderPosition
             /\ requestedClientX' # <<>>
             /\ rafCallbacks' = {[id |-> animationFrameRef',
                                  clientX |-> requestedClientX'[1]]}
       /\ /\ window \in {"click", "handleClick"} /\ rafCallbacks # {}
          /\ window' \in {"many", "manyClick"}
          => /\ requestedClientX' # <<>>
             /\ rafCallbacks' = {[id |-> animationFrameRef',
                                  clientX |-> requestedClientX'[1]]}]_vars

\* C16: a click has replaced a request that was pending; its own request
\* is the only one pending and the position has not changed yet.
C16_ClickReplacedPending ==
    /\ mounted
    /\ window = "manyClick"
    /\ Cardinality(rafCallbacks) = 1
    /\ requestedClientX # <<>>
    /\ appliedClientX = <<>>
    /\ sliderPosition = Num(50)

\* C17: while the phase is Idle or Hovering, a mouse move (inside or
\* outside), a touch move, a pointer enter and a pointer leave schedule no
\* frame request, cancel none and leave the position unchanged: a step
\* from such a phase that changes the handle, the pending requests or the
\* position is none of these events.
C17_MovesIgnoredUnlessDragging ==
    [][/\ mounted /\ ~isDragging
       /\ ~UNCHANGED <<animationFrameRef, rafCallbacks, sliderPosition>>
       => ~(\/ MouseEnter
            \/ MouseLeave
            \/ \E x \in ClientXs :
                  MouseMoveInside(x) \/ MouseMoveOutside(x) \/ TouchMove(x))
      ]_vars

\* C17: the pointer is over the container and a touch that began on the
\* track is active, the phase is Hovering, and nothing has been scheduled.
C17_HoveringNothingScheduled ==
    /\ mounted
    /\ Phase = "Hovering"
    /\ mouseInside
    /\ touch = "track"
    /\ window = "none"
    /\ rafCallbacks = {}
    /\ sliderPosition = Num(50)

\* C18: a release (mouse-up inside, mouse-up outside, touch-end) in phase
\* Dragging leaves the phase Hovering when the pointer is over the
\* container and Idle when it is not; never Dragging.
C18_ReleasePhase ==
    [][/\ mounted /\ isDragging
       /\ \/ MouseUpOutside
          \/ TouchEnd
          \/ \E x \in ClientXs : MouseUpInside(x)
       => /\ Phase' = IF mouseInside THEN "Hovering" ELSE "Idle"
          /\ Phase' # "Dragging"]_vars

\* C18: a drag begun on the handle was released over the container and the
\* phase is Hovering.
C18_ReleasedInside ==
    /\ mounted
    /\ window = "handleClick"
    /\ mouseButton = "up"
    /\ mouseInside
    /\ Phase = "Hovering"

\* C15: when the frame of updateSliderPosition(x) fires and the rectangle
\* is no longer the one of the time of the call, the position it sets is
\* clamp(((x - L') / W') * 100, 0, 100) for the rectangle (L', W') of the
\* time the frame fires.
C15_RectMeasuredAtFrame ==
    [][/\ mounted /\ requestedClientX # <<>> /\ rectAtRequest # <<rect>>
       /\ FrameFire
       => LET x == requestedClientX[1] - rect.left
              W == rect.width
              p == sliderPosition'
          IN  /\ p.k = "fin"
              /\ x <= 0 => p = Num(0)
              /\ x >= W => p = Num(100)
              /\ 0 < x /\ x < W => p.n * W = 100 * x * p.d]_vars

\* C15: a frame has fired for a call made under another rectangle, and the
\* position is the one of the rectangle of the frame, which is not the one
\* the rectangle of the call would have given.
C15_RemeasuredApplied ==
    /\ mounted
    /\ appliedClientX # <<>>
    /\ rectAtRequest # <<>>
    /\ rectAtRequest # <<rect>>
    /\ rafCallbacks = {}
    /\ sliderPosition = Percentage(appliedClientX[1], rect)
    /\ sliderPosition # Percentage(appliedClientX[1], rectAtRequest[1])

\* C13: the wrapper renders the placeholder in every state in which no
\* entry has reported the element as intersecting and the children in every
\* state after one has; once it renders the children, no entry, props change
\* or unmount makes it render the placeholder again.
C13_PlaceholderUntilIntersecting ==
    /\ [](LazyRenders = IF reported THEN "children" ELSE "fallback")
    /\ [][LazyRenders = "children" => LazyRenders' = "children"]_vars

\* C13: an entry has reported the element as intersecting, the wrapper
\* renders the children, and the observer of the render that followed is
\* the one observing.
C13_ChildrenRendered ==
    /\ lazyMounted
    /\ reported
    /\ LazyRenders = "children"
    /\ observers = {NewObserver(threshold, rootMargin, TRUE)}

\* C14: the placeholder is shown exactly while neither load nor error has
\* fired; once error has fired the src attribute is the fallback if one
\* was passed (a non-empty string) and the src prop if not; while load has
\* fired and error has not, it is the src prop.
C14_PlaceholderAndSource ==
    LET displayed == DisplayedSrc(src, fallback, hasError)
    IN  /\ PlaceholderShown <=> ~loadFired /\ ~errorFired
        /\ errorFired =>
              displayed = IF fallback \in {"undefined", ""} THEN src
                          ELSE fallback
        /\ loadFired /\ ~errorFired => displayed = src

\* C14: the image failed and the fallback that was passed has loaded in
\* its place.
C14_FallbackLoaded ==
    /\ errorFired /\ loadFired
    /\ fallback = "fallback.jpg"
    /\ imgStatus = "complete"
    /\ ~PlaceholderShown

\* C19: hasError implies isLoaded in every state, and no step resets
\* isLoaded or hasError, whatever load and error events follow.
C19_FlagsMonotonic ==
    /\ [](hasError => isLoaded)
    /\ [][/\ isLoaded => isLoaded'
          /\ hasError => hasError']_vars

\* C19: the fallback image itself has failed to load, after the image did.
C19_FallbackFailed ==
    /\ Truthy(fallback)
    /\ imgStatus = "broken"
    /\ hasError /\ isLoaded

\* C20, as stated: isVisible equals hasLoaded, and once the section has
\* loaded no observer observes the element.
C20_NoObserverOnceLoaded ==
    /\ isVisible = hasLoaded
    /\ hasLoaded => observers = {}

============================================================================
